---- MODULE Spec2Model ----
(***************************************************************************)
(* Backtracking sudoku solver of src/src/solve.py: the constraint check    *)
(* possible, the recursive search solve (as an explicit stack of frames),  *)
(* the completion check check_sudoku and the generator generate_sudoku.    *)
(***************************************************************************)
EXTENDS Integers, Sequences, FiniteSets

VARIABLES
    sudoku,            \* the working grid, mutated in place (solve's first argument)
    input,             \* the grid as it was handed to the top-level call
    max_solutions,     \* solve's limit, after line 121 (Inf stands for np.inf)
    sudoku_solutions,  \* the accumulator _sudoku_solutions shared by all frames
    stack,             \* the active frames of solve that are inside their for loops
    pc,                \* position of the running call
    ret,               \* result of a stand-alone call of possible / generate_sudoku
    numbersin,         \* generate_sudoku's target number of clues
    args               \* the arguments of a call of possible or generate_sudoku

vars == <<sudoku, input, max_solutions, sudoku_solutions, stack, pc, ret, numbersin, args>>

(* ------------------------------ bounds -------------------------------- *)

\* at most this many cells of the base grid are cleared in an input
MaxEmpty == 4
\* finite limits 1..MaxK are tried, beside 'max'
MaxK == 2
\* an overwritten given receives a digit of 1..MaxDigit
MaxDigit == 2
\* the digits of an input are renamed cyclically by 0..MaxRelabel
MaxRelabel == 1
\* stand-alone calls of possible: grids with at most this many cells cleared
MaxEmptyP == 2
\* diagonal seeds: 1..9 rotated by 0..MaxShift, ascending and descending
MaxShift == 1
\* cells cleared by the generator: samples starting at offsets 0..MaxOffset
MaxOffset == 2

(* ------------------------- program constants -------------------------- *)

\* np.inf, the value of max_solutions for 'max' (line 121)
Inf == 0

Idx == 0 .. 8
\* valid_numbers = np.arange(10)
valid_numbers == 0 .. 9
\* set_numbers = set(valid_numbers[1:])
set_numbers == valid_numbers \ {0}

(* ------------------------------ inputs -------------------------------- *)

\* a solved grid: what solve returns for the diagonal seed 1..9
BaseRows ==
    << <<1, 4, 5, 2, 3, 7, 6, 9, 8>>,
       <<6, 2, 7, 1, 8, 9, 3, 4, 5>>,
       <<8, 9, 3, 5, 6, 4, 1, 2, 7>>,
       <<2, 1, 6, 4, 7, 8, 9, 5, 3>>,
       <<3, 7, 4, 9, 5, 1, 8, 6, 2>>,
       <<5, 8, 9, 3, 2, 6, 4, 7, 1>>,
       <<4, 5, 1, 8, 9, 2, 7, 3, 6>>,
       <<9, 6, 2, 7, 1, 3, 5, 8, 4>>,
       <<7, 3, 8, 6, 4, 5, 2, 1, 9>> >>

Base == [y \in Idx |-> [x \in Idx |-> BaseRows[y + 1][x + 1]]]

\* cells that an input may have empty
ClearCells == {<<0, 3>>, <<0, 4>>, <<5, 3>>, <<5, 4>>, <<1, 3>>, <<6, 5>>}
\* givens that an input may have overwritten by another digit
CorruptCells == {<<0, 5>>, <<7, 3>>}

\* the base grid with the cells of clr empty and the cells of CorruptCells
\* overwritten by the digit ow gives them (0: left alone)
InputGrid(clr, ow) ==
    [y \in Idx |-> [x \in Idx |->
        IF <<y, x>> \in clr THEN 0
        ELSE IF <<y, x>> \in CorruptCells /\ ow[<<y, x>>] # 0 THEN ow[<<y, x>>]
        ELSE Base[y][x]]]

\* the same grid with every digit d renamed to d + s, cyclically in 1..9
Relabel(g, s) ==
    [y \in Idx |-> [x \in Idx |->
        IF g[y][x] = 0 THEN 0 ELSE ((g[y][x] - 1 + s) % 9) + 1]]

InputGrids ==
    {Relabel(InputGrid(clr, ow), s) :
        clr \in {c \in SUBSET ClearCells : Cardinality(c) <= MaxEmpty},
        ow \in [CorruptCells -> 0 .. MaxDigit],
        s \in 0 .. MaxRelabel}

\* max_solutions after line 121: a positive integer, or np.inf for 'max'
Limits == (1 .. MaxK) \cup {Inf}

(* ------------------------- possible (150-176) ------------------------- *)

\* possible with the box origin taken as x % 3 * 3, y % 3 * 3
possible_ModBox(g, y, x, n) ==
    IF \E c \in Idx : g[y][c] = n THEN FALSE
    ELSE IF \E r \in Idx : g[r][x] = n THEN FALSE
    ELSE LET x0 == (x % 3) * 3
             y0 == (y % 3) * 3
         IN  IF \E r \in y0 .. y0 + 2, c \in x0 .. x0 + 2 : g[r][c] = n
             THEN FALSE
             ELSE TRUE

possible(g, y, x, n) ==
    IF \E c \in Idx : g[y][c] = n THEN FALSE
    ELSE IF \E r \in Idx : g[r][x] = n THEN FALSE
    ELSE LET x0 == (x \div 3) * 3
             y0 == (y \div 3) * 3
         IN  IF \E r \in y0 .. y0 + 2, c \in x0 .. x0 + 2 : g[r][c] = n
             THEN FALSE
             ELSE TRUE

(* ----------------------- check_sudoku (52-80) ------------------------- *)

check_sudoku(g) ==
    LET rows == \A r \in Idx : {g[r][c] : c \in Idx} = set_numbers
        cols == \A c \in Idx : {g[r][c] : r \in Idx} = set_numbers
        q(ys, xs) == {g[r][c] : r \in ys, c \in xs} = set_numbers
    IN  /\ rows
        /\ cols
        /\ q(0 .. 2, 0 .. 2) /\ q(0 .. 2, 3 .. 5) /\ q(0 .. 2, 6 .. 8)
        /\ q(3 .. 5, 0 .. 2) /\ q(3 .. 5, 3 .. 5) /\ q(3 .. 5, 6 .. 8)
        /\ q(6 .. 8, 0 .. 2) /\ q(6 .. 8, 3 .. 5) /\ q(6 .. 8, 6 .. 8)

(* --------------------------- solve (119-135) -------------------------- *)

\* np.where(sudoku == 0): the empty cells
Zeros(g) == {p \in Idx \X Idx : g[p[1]][p[2]] = 0}

\* the first pair the for loop of line 122 yields: np.where lists row-major
FirstZero(g) ==
    CHOOSE p \in Zeros(g) : \A q \in Zeros(g) : 9 * p[1] + p[2] <= 9 * q[1] + q[2]

\* the write with its indices swapped: sudoku[x, y] = v
SetCell_Swapped(g, y, x, v) == [g EXCEPT ![x][y] = v]

\* the write left out
SetCell_Noop(g, y, x, v) == g

\* sudoku[y, x] = v
SetCell(g, y, x, v) == [g EXCEPT ![y][x] = v]

\* the limit never looked at: the placement is always undone
BelowLimit_Always(sols, m) == TRUE

\* the comparison off by one: len(_sudoku_solutions) <= max_solutions
BelowLimit_OffByOne(sols, m) == m = Inf \/ Len(sols) <= m

\* len(_sudoku_solutions) < max_solutions, where nothing reaches np.inf
BelowLimit(sols, m) == m = Inf \/ Len(sols) < m

\* sudoku.copy(): a grid of its own, which later writes to sudoku never reach
Copy(g) == g

Top == stack[Len(stack)]

SetTop(f) == [stack EXCEPT ![Len(stack)] = f]

\* the call with line 134 left out: a full grid is returned unrecorded
Call_NoRecord ==
    /\ pc = "call"
    /\ IF Zeros(sudoku) = {}
       THEN /\ pc' = "ret"
            /\ UNCHANGED <<stack, sudoku_solutions>>
       ELSE /\ stack' = Append(stack, [y0 |-> FirstZero(sudoku)[1],
                                       x0 |-> FirstZero(sudoku)[2],
                                       n  |-> 1,
                                       nz |-> Cardinality(Zeros(sudoku))])
            /\ pc' = "loop"
            /\ UNCHANGED sudoku_solutions
    /\ UNCHANGED <<sudoku, input, max_solutions, ret, numbersin, args>>

\* a call of solve is entered (lines 119-122): with no empty cell it records
\* the grid and returns (134-135), otherwise it starts on the first empty cell
Call ==
    /\ pc = "call"
    /\ IF Zeros(sudoku) = {}
       THEN /\ sudoku_solutions' = Append(sudoku_solutions, Copy(sudoku))
            /\ pc' = "ret"
            /\ UNCHANGED stack
       ELSE /\ stack' = Append(stack, [y0 |-> FirstZero(sudoku)[1],
                                       x0 |-> FirstZero(sudoku)[2],
                                       n  |-> 1,
                                       nz |-> Cardinality(Zeros(sudoku))])
            /\ pc' = "loop"
            /\ UNCHANGED sudoku_solutions
    /\ UNCHANGED <<sudoku, input, max_solutions, ret, numbersin, args>>

\* lines 123-124, possible false: on to the next digit
Skip ==
    /\ pc = "loop"
    /\ Top.n <= 9
    /\ ~possible(sudoku, Top.y0, Top.x0, Top.n)
    /\ stack' = SetTop([Top EXCEPT !.n = @ + 1])
    /\ UNCHANGED <<sudoku, input, max_solutions, sudoku_solutions, pc, ret, numbersin, args>>

\* lines 124-126, possible true: the digit is written and solve calls itself
Place ==
    /\ pc = "loop"
    /\ Top.n <= 9
    /\ possible(sudoku, Top.y0, Top.x0, Top.n)
    /\ sudoku' = SetCell(sudoku, Top.y0, Top.x0, Top.n)
    /\ pc' = "call"
    /\ UNCHANGED <<input, max_solutions, sudoku_solutions, stack, ret, numbersin, args>>

\* lines 127-128, after the inner call returned: undo below the limit, then
\* the next digit
Resume ==
    /\ pc = "ret"
    /\ stack # <<>>
    /\ sudoku' = IF BelowLimit(sudoku_solutions, max_solutions)
                 THEN SetCell(sudoku, Top.y0, Top.x0, 0)
                 ELSE sudoku
    /\ stack' = SetTop([Top EXCEPT !.n = @ + 1])
    /\ pc' = "loop"
    /\ UNCHANGED <<input, max_solutions, sudoku_solutions, ret, numbersin, args>>

\* line 130: range(1, 10) is exhausted, the frame returns
Return ==
    /\ pc = "loop"
    /\ Top.n > 9
    /\ stack' = SubSeq(stack, 1, Len(stack) - 1)
    /\ pc' = "ret"
    /\ UNCHANGED <<sudoku, input, max_solutions, sudoku_solutions, ret, numbersin, args>>

\* the top-level call returns _sudoku_solutions to its caller
Finish ==
    /\ pc = "ret"
    /\ stack = <<>>
    /\ pc' = "done"
    /\ ret' = sudoku_solutions
    /\ UNCHANGED <<sudoku, input, max_solutions, sudoku_solutions, stack, numbersin, args>>

Init ==
    /\ sudoku \in InputGrids
    /\ input = sudoku
    /\ max_solutions \in Limits
    /\ sudoku_solutions = <<>>
    /\ stack = <<>>
    /\ pc = "call"
    /\ ret = <<>>
    /\ numbersin = 0
    /\ args = [call |-> "solve"]

Next == Call \/ Skip \/ Place \/ Resume \/ Return \/ Finish

Spec == Init /\ [][Next]_vars

\* the interpreter always runs the next statement of a call that has not returned
FairSpec == Spec /\ WF_vars(Next)

(* -------------------- possible, called on its own -------------------- *)

PossibleGrids ==
    {InputGrid(clr, ow) :
        clr \in {c \in SUBSET ClearCells : Cardinality(c) <= MaxEmptyP},
        ow \in [CorruptCells -> 0 .. MaxDigit]}

InitPossible ==
    /\ sudoku \in PossibleGrids
    /\ input = sudoku
    /\ args \in [call : {"possible"}, y : Idx, x : Idx, n : set_numbers]
    /\ pc = "possible"
    /\ ret = <<>>
    /\ max_solutions = 1
    /\ sudoku_solutions = <<>>
    /\ stack = <<>>
    /\ numbersin = 0

\* possible(sudoku, y, x, n) runs and returns; it assigns to nothing
PossibleCall ==
    /\ pc = "possible"
    /\ ret' = possible(sudoku, args.y, args.x, args.n)
    /\ pc' = "possible_done"
    /\ UNCHANGED <<sudoku, input, max_solutions, sudoku_solutions, stack, numbersin, args>>

NextPossible == PossibleCall

SpecPossible == InitPossible /\ [][NextPossible]_vars

(* ---------------------- generate_sudoku (82-95) ----------------------- *)

\* no array has been built yet
NoGrid == <<>>

Difficulties == {"easy", "medium", "hard", "extreme"}

\* np.random.shuffle(diag): the permutations of 1..9 tried
Rotated(s) == [i \in Idx |-> ((i + s) % 9) + 1]
Seeds ==
    {Rotated(s) : s \in 0 .. MaxShift} \cup {[i \in Idx |-> Rotated(s)[8 - i]] : s \in 0 .. MaxShift}

\* np.diag(diag)
Diag(d) == [y \in Idx |-> [x \in Idx |-> IF y = x THEN d[y] ELSE 0]]

\* a draw with replacement (replace=True): positions may repeat
Sample_Replace(o, st, size) == {(o + st * (i \div 2)) % 81 : i \in 0 .. size - 1}

\* np.random.choice(np.arange(9*9), size, replace=False): size distinct
\* positions of 0..80; the draws tried start at o and advance by st, which
\* has no factor in common with 81
Sample(o, st, size) == {(o + st * i) % 81 : i \in 0 .. size - 1}

Strides == {1, 2}

\* sudoku.ravel()[idx] = 0
Mask(g, idx) == [y \in Idx |-> [x \in Idx |-> IF 9 * y + x \in idx THEN 0 ELSE g[y][x]]]

InitGen ==
    /\ args \in [call : {"generate_sudoku"}, difficulty : Difficulties]
    /\ pc = "generate"
    /\ sudoku = NoGrid
    /\ input = NoGrid
    /\ max_solutions = 1
    /\ sudoku_solutions = <<>>
    /\ stack = <<>>
    /\ ret = <<>>
    /\ numbersin = 0

\* lines 83-86: the number of clues of the difficulty, or ValueError
GenDifficulty ==
    /\ pc = "generate"
    /\ IF args.difficulty = "easy" THEN numbersin' = 30 /\ pc' = "seed"
       ELSE IF args.difficulty = "medium" THEN numbersin' = 24 /\ pc' = "seed"
       ELSE IF args.difficulty = "hard" THEN numbersin' = 17 /\ pc' = "seed"
       ELSE numbersin' = numbersin /\ pc' = "error"
    /\ UNCHANGED <<sudoku, input, max_solutions, sudoku_solutions, stack, ret, args>>

\* lines 88-90: the shuffled diagonal is built and solve is called on it with
\* its default max_solutions = 1
GenSeed ==
    /\ pc = "seed"
    /\ \E d \in Seeds :
          /\ sudoku' = Diag(d)
          /\ input' = Diag(d)
    /\ max_solutions' = 1
    /\ sudoku_solutions' = <<>>
    /\ stack' = <<>>
    /\ pc' = "call"
    /\ UNCHANGED <<ret, numbersin, args>>

\* lines 90-95: the first solution is taken (IndexError when there is none),
\* 81 - numbersin of its cells are cleared and it is returned
GenMask ==
    /\ pc = "done"
    /\ IF ret = <<>>
       THEN pc' = "error" /\ ret' = ret
       ELSE /\ \E o \in 0 .. MaxOffset, st \in Strides :
                 ret' = Mask(ret[1], Sample(o, st, 9 * 9 - numbersin))
            /\ pc' = "generated"
    /\ UNCHANGED <<sudoku, input, max_solutions, sudoku_solutions, stack, numbersin, args>>

NextGen ==
    \/ GenDifficulty \/ GenSeed \/ GenMask
    \/ Call \/ Skip \/ Place \/ Resume \/ Return \/ Finish

SpecGen == InitGen /\ [][NextGen]_vars

(* ------------------- notions the properties are stated in ------------- *)

\* the cells of the row, the column and the 3x3 box of cell (y, x)
RowOf(y) == {<<y, c>> : c \in Idx}
ColOf(x) == {<<r, x>> : r \in Idx}
BoxOf(y, x) == {p \in Idx \X Idx : p[1] \div 3 = y \div 3 /\ p[2] \div 3 = x \div 3}
Units ==
    {RowOf(y) : y \in Idx} \cup {ColOf(x) : x \in Idx}
        \cup {BoxOf(3 * i, 3 * j) : i \in 0 .. 2, j \in 0 .. 2}

\* every row, column and box is a permutation of 1..9
IsComplete(g) == \A u \in Units : {g[p[1]][p[2]] : p \in u} = 1 .. 9

\* two given cells of one row, column or box hold the same digit
GivensConflict(g) ==
    \E u \in Units : \E p, q \in u :
        p # q /\ g[p[1]][p[2]] # 0 /\ g[p[1]][p[2]] = g[q[1]][q[2]]

\* every way of filling the empty cells of g, each with a digit its row lacks
RECURSIVE Fills(_)
Fills(g) ==
    IF Zeros(g) = {} THEN {g}
    ELSE LET p == CHOOSE z \in Zeros(g) : TRUE
         IN  UNION {Fills([g EXCEPT ![p[1]][p[2]] = d]) :
                        d \in (1 .. 9) \ {g[p[1]][c] : c \in Idx}}

\* the valid completions of g: a complete grid has no digit twice in a row,
\* so each of them is among Fills(g)
Completions(g) == {h \in Fills(g) : IsComplete(h)}

\* h1 comes before h2 in the lexicographic order of the digits given to the
\* empty cells of g, read in row-major order
LexLess(g, h1, h2) ==
    \E p \in Zeros(g) :
        /\ h1[p[1]][p[2]] < h2[p[1]][p[2]]
        /\ \A q \in Zeros(g) :
              9 * q[1] + q[2] < 9 * p[1] + p[2] => h1[q[1]][q[2]] = h2[q[1]][q[2]]

Range(seq) == {seq[i] : i \in 1 .. Len(seq)}

(* ------------------------------ solve --------------------------------- *)

\* C1: when the input has a valid completion, solve with max_solutions = 1
\* returns exactly one grid, and every row, column and box of that grid is a
\* permutation of 1..9.
C1_OneCompleteSolution ==
    (pc = "done" /\ max_solutions = 1 /\ Completions(input) # {})
        => (Len(ret) = 1 /\ IsComplete(ret[1]))

\* a solve(G, 1) that returned, on an input with two empty cells or more and
\* several completions
C1_Witness ==
    /\ pc = "done" /\ max_solutions = 1
    /\ Cardinality(Zeros(input)) >= 2
    /\ Cardinality(Completions(input)) >= 2

\* C2: when the givens of the input hold a digit twice in a row, column or
\* box, solve returns the empty sequence, whatever the limit and the number
\* of empty cells.
C2_ConflictGivesNothing ==
    (pc = "done" /\ GivensConflict(input)) => ret = <<>>

\* C3: on a complete grid solve returns that grid as its only solution, for
\* every limit, and leaves the working grid as it was.
C3_CompleteIsItsOwnSolution ==
    (pc = "done" /\ IsComplete(input))
        => (ret = <<input>> /\ sudoku = input)

\* solve returned on a complete input
C3_Witness == pc = "done" /\ IsComplete(input) /\ Len(ret) = 1

\* C6: with conflict-free givens, solve(G, 'max') returns exactly the valid
\* completions of G, each once, in ascending lexicographic order of the digits
\* given to the empty cells in row-major order (so nothing recorded earlier was
\* changed by later writes), and nothing when G has no completion.
C6_AllCompletionsInOrder ==
    (pc = "done" /\ max_solutions = Inf /\ ~GivensConflict(input))
        => /\ Range(ret) = Completions(input)
           /\ Len(ret) = Cardinality(Completions(input))
           /\ \A i, j \in 1 .. Len(ret) : i < j => LexLess(input, ret[i], ret[j])

\* solve(G, 'max') returned several completions of a conflict-free input
C6_Witness ==
    /\ pc = "done" /\ max_solutions = Inf /\ ~GivensConflict(input)
    /\ Len(ret) >= 2

\* C7: with a finite limit k, never more than k solutions are recorded,
\* whatever the input (givens with duplicates included).
C7_NeverMoreThanLimit ==
    max_solutions # Inf => Len(sudoku_solutions) <= max_solutions

\* C8: when the top-level call returns on an input with conflict-free givens,
\* the working grid equals the input if fewer solutions than the limit were
\* recorded, and equals the last recorded solution if the limit was reached.
C8_GridOnReturn ==
    (pc = "done" /\ ~GivensConflict(input))
        => IF max_solutions = Inf \/ Len(ret) < max_solutions
           THEN sudoku = input
           ELSE /\ Len(ret) = max_solutions
                /\ sudoku = ret[Len(ret)]

\* solve returned with the limit reached on an input that had empty cells
C8_Witness ==
    /\ pc = "done" /\ ~GivensConflict(input)
    /\ Zeros(input) # {}
    /\ max_solutions # Inf /\ Len(ret) = max_solutions
    /\ sudoku # input

\* every call is entered on a grid with fewer empty cells than its caller was,
\* the depth stays within the number of empty cells of the input, and a frame
\* tries the digits 1..9 on the one cell that was its first empty cell
C9_Decreasing ==
    LET nzi == Cardinality(Zeros(input))
    IN  /\ Len(stack) <= nzi
        /\ \A i \in 1 .. Len(stack) :
              /\ stack[i].n \in 1 .. 10
              /\ input[stack[i].y0][stack[i].x0] = 0
              /\ stack[i].nz <= nzi
              /\ i > 1 => stack[i].nz < stack[i - 1].nz
        /\ (pc = "call" /\ stack # <<>>) => Cardinality(Zeros(sudoku)) < Top.nz

\* C9: solve terminates on every input and for every limit; every recursive
\* call is entered on a grid with strictly fewer empty cells than its caller's,
\* so the depth never exceeds the number of empty cells of the input, and each
\* frame tries at most 9 digits.
C9_Terminates == []C9_Decreasing /\ <>(pc = "done")

\* a call three frames deep is about to be entered
C9_Witness == pc = "call" /\ Len(stack) >= 3

\* C10: a cell that is given in the input keeps its value in every state of
\* the search, and every recorded or returned grid agrees with the input on
\* all the givens.
C10_GivensKept ==
    LET Kept(g) ==
            \A y \in Idx :
                g[y] = input[y] \/ \A x \in Idx : input[y][x] # 0 => g[y][x] = input[y][x]
    IN  /\ Kept(sudoku)
        /\ \A i \in 1 .. Len(sudoku_solutions) : Kept(sudoku_solutions[i])
        /\ \A i \in 1 .. Len(ret) : Kept(ret[i])

\* a digit has been written and a solution recorded
C10_Witness ==
    /\ sudoku # input
    /\ sudoku_solutions # <<>>
    /\ pc = "loop"

(* ----------------------------- possible ------------------------------ *)

\* C4: possible(G, r, c, n) is false if n occurs in row r, in column c or in
\* the 3x3 box with origin (r/3*3, c/3*3), integer division, and true
\* otherwise; it does not modify G.
C4_PossibleIffAbsent ==
    pc = "possible_done" =>
        LET r == args.y
            c == args.x
            n == args.n
            inRow == \E j \in Idx : input[r][j] = n
            inCol == \E i \in Idx : input[i][c] = n
            inBox == \E i, j \in 0 .. 2 :
                        input[(r \div 3) * 3 + i][(c \div 3) * 3 + j] = n
        IN  /\ ret = ~(inRow \/ inCol \/ inBox)
            /\ sudoku = input

\* possible returned FALSE for a digit that is only in the box, not in the row
\* or the column, of the cell
C4_Witness ==
    /\ pc = "possible_done" /\ ret = FALSE
    /\ \A j \in Idx : input[args.y][j] # args.n /\ input[j][args.x] # args.n

(* -------------------------- generate_sudoku --------------------------- *)

NonZero(g) == Cardinality({p \in Idx \X Idx : g[p[1]][p[2]] # 0})

\* C5: for every seed and every draw of cells, generate_sudoku finds a
\* completion of the diagonal seed and returns a grid with exactly 30 non-zero
\* cells for 'easy', 24 for 'medium' and 17 for 'hard'; any other label fails
\* before a grid is built.
C5_ClueCount ==
    /\ pc = "error" => (args.difficulty \notin {"easy", "medium", "hard"} /\ sudoku = NoGrid)
    /\ pc = "done" => (Len(ret) = 1 /\ IsComplete(ret[1]))
    /\ pc = "generated" =>
          NonZero(ret) = CASE args.difficulty = "easy" -> 30
                           [] args.difficulty = "medium" -> 24
                           [] args.difficulty = "hard" -> 17

\* a hard puzzle has been generated
C5_Witness == pc = "generated" /\ args.difficulty = "hard" /\ NonZero(ret) = 17

====
